---- MODULE Spec2Model ----
\* Verification model of the workflow option mutation engine
\* (src/src/workflow-updater.ts: modifyWorkflowContent, modifyWithFallback,
\* extractOptionsWithRegex, replaceOptionsWithRegex) and of the loop that
\* applies it to the workflow files of a repository (updateWorkflowChoices,
\* called by run of src/src/index.ts).
\*
\* A document is the sequence of its lines (text.split('\n')); two documents
\* are the same text iff they are the same sequence of line records.  A line
\* record keeps the leading whitespace length (ind), the shape of the trimmed
\* text (k), and the text itself: the key and inline value of a "key: value"
\* line, or, for a list item, every character that follows the dash (rest).
\* JavaScript strings that the code inspects character by character (option
\* values) are sequences of one-character strings.
EXTENDS Integers, Sequences, FiniteSets, TLC

VARIABLES
  content,         \* the document text passed to the call
  options,         \* the request: action, inputName, choiceValue, newChoiceValue
  entry,           \* the exported function the caller invoked
  pc,              \* the position of the caller and of the call
  currentOptions,  \* the option list the call read
  newOptions,      \* the option list the policy computed
  modified,        \* the policy's modified flag
  result,          \* the text the call returned
  thrown,          \* the call ended with an exception
  strategy,        \* the function that produced the result
  outcome,         \* the return statement taken
  calls,           \* calls made so far
  prev,            \* the previous call of the behaviour
  workflows,       \* updateWorkflowChoices: the workflow file names to process
  cursor,          \* the position of the for loop in workflows
  updatedWorkflows,\* the names pushed so far
  apiCalls,        \* the octokit requests issued so far, with their status
  settled,         \* "pending", "fulfilled" or "rejected": the promise
  outputs,         \* run: what core.setOutput has set
  failed,          \* run: core.setFailed was called
  remote,          \* the store: the revision (blob sha) of each workflow file
  fileData,        \* the sha the last getContent returned
  warnings         \* the core.warning calls of the loop

\* The state of updateWorkflowChoices and of run.
runVars == <<workflows, cursor, updatedWorkflows, apiCalls, settled, outputs,
             failed, remote, fileData, warnings>>

vars == <<content, options, entry, pc, currentOptions, newOptions, modified,
          result, thrown, strategy, outcome, calls, prev, workflows, cursor,
          updatedWorkflows, apiCalls, settled, outputs, failed, remote,
          fileData, warnings>>

-----------------------------------------------------------------------------
\* Bounds of the model.

\* Longest option list of a generated document.
MaxOptions == 3

\* Number of calls the caller makes in one behaviour.
MaxCalls == 2

\* Longest workflows list given to updateWorkflowChoices.
MaxWorkflows == 2

\* Writes another writer makes to one workflow file during a run.
MaxOtherWrites == 2

-----------------------------------------------------------------------------
\* Characters and strings.

Q == "'"
DQ == "\""
SP == " "

IsQuote(c) == c = Q \/ c = DQ

RECURSIVE LTrim(_)
LTrim(s) == IF s /= <<>> /\ Head(s) = SP THEN LTrim(Tail(s)) ELSE s

RECURSIVE RTrim(_)
RTrim(s) ==
  IF s /= <<>> /\ s[Len(s)] = SP THEN RTrim(SubSeq(s, 1, Len(s) - 1)) ELSE s

\* String.prototype.trim
Trim(s) == LTrim(RTrim(s))

\* .replace(/^['"]|['"]$/g, ''): one leading quote character and one trailing
\* quote character are removed, independently of each other.
StripQuotes(s) ==
  LET s1 == IF s /= <<>> /\ IsQuote(Head(s)) THEN Tail(s) ELSE s
  IN  IF s1 /= <<>> /\ IsQuote(s1[Len(s1)])
        THEN SubSeq(s1, 1, Len(s1) - 1)
        ELSE s1

\* Array.prototype.indexOf, 1-based; 0 stands for JavaScript's -1.
IndexOf(seq, v) ==
  IF \E i \in 1..Len(seq) : seq[i] = v
    THEN CHOOSE i \in 1..Len(seq) :
           seq[i] = v /\ \A j \in 1..(i - 1) : seq[j] /= v
    ELSE 0

\* Array.prototype.includes
Includes(seq, v) == \E i \in 1..Len(seq) : seq[i] = v

\* An absent optional property (newChoiceValue?: string).
Undefined == <<"undefined">>

\* JavaScript truthiness of an optional string.
Truthy(s) == s /= Undefined /\ s /= <<>>

-----------------------------------------------------------------------------
\* Lines.

KeyLine(i, key, val) ==
  [ind |-> i, k |-> "key", key |-> key, val |-> val, rest |-> <<>>]

ItemLine(i, rest) ==
  [ind |-> i, k |-> "item", key |-> "", val |-> "", rest |-> rest]

BlankLine == [ind |-> 0, k |-> "blank", key |-> "", val |-> "", rest |-> <<>>]

CommentLine(i) ==
  [ind |-> i, k |-> "comment", key |-> "", val |-> "", rest |-> <<>>]

ScalarLine(i) ==
  [ind |-> i, k |-> "scalar", key |-> "", val |-> "", rest |-> <<>>]

\* A fragment the YAML parser rejects (an unterminated double-quoted scalar
\* after a key).
BadLine(i) ==
  [ind |-> i, k |-> "bad", key |-> "", val |-> "", rest |-> <<>>]

\* line.trim() is the empty string.
TrimmedEmpty(l) == l.k = "blank"

\* trimmed.startsWith(`${inputName}:`)
StartsWithInput(l, inputName) == l.k = "key" /\ l.key = inputName

\* trimmed.startsWith('-')
StartsWithDash(l) == l.k = "item"

\* trimmed === 'options:'
IsOptionsLine(l) == l.k = "key" /\ l.key = "options" /\ l.val = ""

\* trimmed.replace(/^-\s*/, '').replace(/^['"]|['"]$/g, '') on an item line:
\* trim() has removed the trailing whitespace, /^-\s*/ the dash and the
\* whitespace that follows it.
ItemOption(l) == StripQuotes(LTrim(RTrim(l.rest)))

\* `${optionItemIndent}- ${opt}`
WrittenItem(optionsIndent, opt) == ItemLine(optionsIndent + 2, <<SP>> \o opt)

-----------------------------------------------------------------------------
\* extractOptionsWithRegex: the line scan of the fallback.

ExtractStart ==
  [inTargetInput |-> FALSE, inOptions |-> FALSE, inputIndent |-> 0,
   optionsIndent |-> 0, options |-> <<>>]

RECURSIVE ExtractScan(_, _, _, _)
ExtractScan(lines, i, inputName, st) ==
  IF i > Len(lines) THEN st.options
  ELSE
    LET line == lines[i]
        next(s) == ExtractScan(lines, i + 1, inputName, s)
    IN
    IF StartsWithInput(line, inputName)
      THEN next([st EXCEPT !.inTargetInput = TRUE, !.inputIndent = line.ind])
    ELSE IF ~st.inTargetInput THEN next(st)
    ELSE IF ~TrimmedEmpty(line) /\ line.ind <= st.inputIndent
            /\ ~StartsWithDash(line)
      THEN st.options
    ELSE IF IsOptionsLine(line)
      THEN next([st EXCEPT !.inOptions = TRUE, !.optionsIndent = line.ind])
    ELSE IF ~st.inOptions THEN next(st)
    ELSE IF ~TrimmedEmpty(line) /\ ~StartsWithDash(line)
            /\ line.ind <= st.optionsIndent
      THEN st.options
    ELSE IF StartsWithDash(line)
      THEN next([st EXCEPT !.options = Append(@, ItemOption(line))])
    ELSE next(st)

ExtractOptionsWithRegex(lines, inputName) ==
  ExtractScan(lines, 1, inputName, ExtractStart)

-----------------------------------------------------------------------------
\* replaceOptionsWithRegex: the splice of the fallback.

\* The while loop that skips the list-item lines that directly follow
\* 'options:'; the value is the index of the last line skipped.
RECURSIVE SkipExisting(_, _)
SkipExisting(lines, i) ==
  IF i + 1 <= Len(lines) /\ StartsWithDash(lines[i + 1])
    THEN SkipExisting(lines, i + 1)
    ELSE i

NewItemLines(optionsIndent, opts) ==
  [n \in 1..Len(opts) |-> WrittenItem(optionsIndent, opts[n])]

RECURSIVE ReplaceScan(_, _, _, _, _, _, _)
ReplaceScan(lines, i, inputName, opts, inTargetInput, inputIndent, out) ==
  IF i > Len(lines) THEN out
  ELSE
    LET line == lines[i] IN
    IF StartsWithInput(line, inputName)
      THEN ReplaceScan(lines, i + 1, inputName, opts, TRUE, line.ind,
                       Append(out, line))
    ELSE IF ~inTargetInput
      THEN ReplaceScan(lines, i + 1, inputName, opts, FALSE, inputIndent,
                       Append(out, line))
    ELSE
      LET stillIn == ~(~TrimmedEmpty(line) /\ line.ind <= inputIndent
                       /\ ~StartsWithDash(line))
      IN
      IF stillIn /\ IsOptionsLine(line)
        THEN ReplaceScan(lines, SkipExisting(lines, i) + 1, inputName, opts,
                         TRUE, inputIndent,
                         Append(out, line) \o NewItemLines(line.ind, opts))
        ELSE ReplaceScan(lines, i + 1, inputName, opts, stillIn, inputIndent,
                         Append(out, line))

\* replaceOptionsWithRegex that takes every line to be inside the target
\* input.
ReplaceOptionsWithRegexAnyInput(lines, inputName, opts) ==
  ReplaceScan(lines, 1, inputName, opts, TRUE, -1, <<>>)

ReplaceOptionsWithRegex(lines, inputName, opts) ==
  ReplaceScan(lines, 1, inputName, opts, FALSE, 0, <<>>)

-----------------------------------------------------------------------------
\* The YAML library as modifyWorkflowContent uses it (yaml.parseDocument,
\* doc.errors, doc.toJS, doc.createNode, set, doc.toString), for block-style
\* documents: mappings of "key:" lines, block sequences of "- item" lines,
\* comments and blank lines.  A node is named by its key line.

ContentLine(l) == l.k \notin {"blank", "comment"}

\* First line from j on that is neither blank nor a comment, or 0.
RECURSIVE FirstContentFrom(_, _)
FirstContentFrom(lines, j) ==
  IF j > Len(lines) THEN 0
  ELSE IF ContentLine(lines[j]) THEN j
  ELSE FirstContentFrom(lines, j + 1)

\* What doc.toJS() makes of the value of key line i: "null", "scalar", "seq"
\* or "map".
NodeKind(lines, i) ==
  IF lines[i].val = "[]" THEN "seq"
  ELSE IF lines[i].val /= "" THEN "scalar"
  ELSE LET f == FirstContentFrom(lines, i + 1) IN
       IF f = 0 THEN "null"
       ELSE IF lines[f].ind <= lines[i].ind THEN "null"
       ELSE IF lines[f].k = "item" THEN "seq"
       ELSE IF lines[f].k = "key" THEN "map"
       ELSE "scalar"

\* The mappings still open at a line of indentation ind.
OpenAt(stack, ind) == SelectSeq(stack, LAMBDA e : e.ind < ind)

StackKeys(stack) == [n \in 1..Len(stack) |-> stack[n].key]

\* The key line reached from the document root by the keys of path, or 0
\* when a segment is absent (undefined).  stack holds the key lines whose
\* blocks are open at line i.
RECURSIVE PathScan(_, _, _, _)
PathScan(lines, i, stack, path) ==
  IF i > Len(lines) THEN 0
  ELSE IF ~ContentLine(lines[i]) THEN PathScan(lines, i + 1, stack, path)
  ELSE IF lines[i].k /= "key"
    THEN PathScan(lines, i + 1, OpenAt(stack, lines[i].ind), path)
  ELSE IF StackKeys(OpenAt(stack, lines[i].ind)) \o <<lines[i].key>> = path
    THEN i
  ELSE PathScan(lines, i + 1,
                Append(OpenAt(stack, lines[i].ind),
                       [ind |-> lines[i].ind, key |-> lines[i].key]),
                path)

KeyAt(lines, path) == PathScan(lines, 1, <<>>, path)

\* A quoted scalar that is not closed by the quote that opens it.
QuoteError(l) ==
  /\ Trim(l.rest) /= <<>>
  /\ IsQuote(Head(Trim(l.rest)))
  /\ ~(Len(Trim(l.rest)) >= 2
       /\ Trim(l.rest)[Len(Trim(l.rest))] = Head(Trim(l.rest)))

\* The string a sequence item denotes: the text between the quotes of a quoted
\* scalar, the trimmed text of a plain one.
ItemValue(l) ==
  IF Trim(l.rest) /= <<>> /\ IsQuote(Head(Trim(l.rest))) /\ ~QuoteError(l)
    THEN SubSeq(Trim(l.rest), 2, Len(Trim(l.rest)) - 1)
    ELSE Trim(l.rest)

\* The items of the block sequence that is the value of a key line of
\* indentation keyInd, read from line j on.
RECURSIVE SeqScan(_, _, _, _)
SeqScan(lines, j, keyInd, acc) ==
  IF j > Len(lines) THEN acc
  ELSE IF ~ContentLine(lines[j]) THEN SeqScan(lines, j + 1, keyInd, acc)
  ELSE IF lines[j].k = "item" /\ lines[j].ind > keyInd
    THEN SeqScan(lines, j + 1, keyInd, Append(acc, ItemValue(lines[j])))
  ELSE acc

\* The last item line of that sequence; last is the key line itself as long
\* as no item has been met.
RECURSIVE LastItem(_, _, _, _)
LastItem(lines, j, keyInd, last) ==
  IF j > Len(lines) THEN last
  ELSE IF ~ContentLine(lines[j]) THEN LastItem(lines, j + 1, keyInd, last)
  ELSE IF lines[j].k = "item" /\ lines[j].ind > keyInd
    THEN LastItem(lines, j + 1, keyInd, j)
  ELSE last

\* doc.errors && doc.errors.length > 0
DocErrors(lines) ==
  \E i \in 1..Len(lines) :
    lines[i].k = "bad" \/ (lines[i].k = "item" /\ QuoteError(lines[i]))

\* doc.toJS() is null: the document has no content node.
RootIsNull(lines) == FirstContentFrom(lines, 1) = 0

InputsPath == <<"on", "workflow_dispatch", "inputs">>

\* workflowDispatch?.inputs
Inputs(lines) == KeyAt(lines, InputsPath)

\* !workflowDispatch?.inputs
NoInputs(lines) ==
  Inputs(lines) = 0 \/ NodeKind(lines, Inputs(lines)) = "null"

\* workflowDispatch.inputs[inputName]
Input(lines, inputName) == KeyAt(lines, InputsPath \o <<inputName>>)

\* !input
NoInput(lines, inputName) ==
  Input(lines, inputName) = 0
    \/ NodeKind(lines, Input(lines, inputName)) = "null"

\* The key line of input.type, or 0.
TypeNode(lines, inputName) ==
  KeyAt(lines, InputsPath \o <<inputName, "type">>)

\* The key line of input.options, or 0.
OptionsNode(lines, inputName) ==
  KeyAt(lines, InputsPath \o <<inputName, "options">>)

\* Array.isArray(input.options)
OptionsIsArray(lines, inputName) ==
  /\ OptionsNode(lines, inputName) /= 0
  /\ NodeKind(lines, OptionsNode(lines, inputName)) = "seq"

\* input.type !== 'choice' || !Array.isArray(input.options)
Ineligible(lines, inputName) ==
  \/ TypeNode(lines, inputName) = 0
  \/ lines[TypeNode(lines, inputName)].val /= "choice"
  \/ ~OptionsIsArray(lines, inputName)

\* [...input.options]
InputOptions(lines, inputName) ==
  IF lines[OptionsNode(lines, inputName)].val = "[]" THEN <<>>
  ELSE SeqScan(lines, OptionsNode(lines, inputName) + 1,
               lines[OptionsNode(lines, inputName)].ind, <<>>)

\* How the serializer writes a string scalar: plain when the text reads back
\* as the same string, double-quoted otherwise.
StringifyScalar(v) ==
  IF v /= <<>> /\ ~IsQuote(Head(v)) /\ Head(v) /= SP /\ v[Len(v)] /= SP
    THEN v
    ELSE <<DQ>> \o v \o <<DQ>>

\* targetInput.set('options', doc.createNode(opts)); doc.toString(): the
\* sequence under 'options' is replaced by a new block sequence (an empty one
\* is written in flow style); every other node keeps its lines.
SetOptionsToString(lines, inputName, opts) ==
  LET o == OptionsNode(lines, inputName)
      last == LastItem(lines, o + 1, lines[o].ind, o)
      head == SubSeq(lines, 1, o - 1)
      tail == SubSeq(lines, last + 1, Len(lines))
      ind == lines[o].ind
  IN  IF opts = <<>>
        THEN head \o <<KeyLine(ind, "options", "[]")>> \o tail
        ELSE head \o <<KeyLine(ind, "options", "")>>
               \o [n \in 1..Len(opts) |->
                     ItemLine(ind + 2, <<SP>> \o StringifyScalar(opts[n]))]
               \o tail

-----------------------------------------------------------------------------
\* The mutation policy, as each of the two functions writes it.

RemoveAt(seq, i) == SubSeq(seq, 1, i - 1) \o SubSeq(seq, i + 1, Len(seq))

\* StructuralPolicy with an update that also drops the other entries equal to
\* the new value.
StructuralPolicyDedup(cur, req) ==
  LET index == IndexOf(cur, req.choiceValue)
      keep == SelectSeq([n \in 1..Len(cur) |-> <<n, cur[n]>>],
                        LAMBDA e : e[1] = index \/ e[2] /= req.newChoiceValue)
  IN
  CASE req.action = "add" ->
         IF ~Includes(cur, req.choiceValue)
           THEN [options |-> Append(cur, req.choiceValue), modified |-> TRUE]
           ELSE [options |-> cur, modified |-> FALSE]
    [] req.action = "delete" ->
         IF index /= 0
           THEN [options |-> SubSeq(cur, 1, index - 1)
                               \o SubSeq(cur, index + 1, Len(cur)),
                 modified |-> TRUE]
           ELSE [options |-> cur, modified |-> FALSE]
    [] req.action = "update" ->
         IF index /= 0 /\ Truthy(req.newChoiceValue)
           THEN [options |-> [n \in 1..Len(keep) |->
                                IF keep[n][1] = index THEN req.newChoiceValue
                                                      ELSE keep[n][2]],
                 modified |-> TRUE]
           ELSE [options |-> cur, modified |-> FALSE]
    [] OTHER -> [options |-> cur, modified |-> FALSE]

\* The switch of modifyWorkflowContent, which edits a copy of input.options
\* in place.
StructuralPolicy(cur, req) ==
  LET index == IndexOf(cur, req.choiceValue) IN
  CASE req.action = "add" ->
         IF ~Includes(cur, req.choiceValue)
           THEN [options |-> Append(cur, req.choiceValue), modified |-> TRUE]
           ELSE [options |-> cur, modified |-> FALSE]
    [] req.action = "delete" ->
         IF index /= 0
           THEN [options |-> RemoveAt(cur, index), modified |-> TRUE]
           ELSE [options |-> cur, modified |-> FALSE]
    [] req.action = "update" ->
         IF index /= 0 /\ Truthy(req.newChoiceValue)
           THEN [options |-> [cur EXCEPT ![index] = req.newChoiceValue],
                 modified |-> TRUE]
           ELSE [options |-> cur, modified |-> FALSE]
    [] OTHER -> [options |-> cur, modified |-> FALSE]

\* currentOptions.filter((_, i) => i !== index)
FilterOut(seq, index) ==
  LET keep(n) == IF n < index THEN n ELSE n + 1
  IN  [n \in 1..(Len(seq) - 1) |-> seq[keep(n)]]

\* FallbackPolicy with an add that puts the value first.
FallbackPolicyAddFirst(cur, req) ==
  LET index == IndexOf(cur, req.choiceValue) IN
  CASE req.action = "add" ->
         IF ~Includes(cur, req.choiceValue)
           THEN [options |-> <<req.choiceValue>> \o cur, modified |-> TRUE]
           ELSE [options |-> cur, modified |-> FALSE]
    [] req.action = "delete" ->
         IF index /= 0
           THEN [options |-> FilterOut(cur, index), modified |-> TRUE]
           ELSE [options |-> cur, modified |-> FALSE]
    [] req.action = "update" ->
         IF index /= 0 /\ Truthy(req.newChoiceValue)
           THEN [options |-> [cur EXCEPT ![index] = req.newChoiceValue],
                 modified |-> TRUE]
           ELSE [options |-> cur, modified |-> FALSE]
    [] OTHER -> [options |-> cur, modified |-> FALSE]

\* Array.prototype.lastIndexOf, 1-based; 0 stands for -1.
LastIndexOf(seq, v) ==
  IF \E i \in 1..Len(seq) : seq[i] = v
    THEN CHOOSE i \in 1..Len(seq) :
           seq[i] = v /\ \A j \in (i + 1)..Len(seq) : seq[j] /= v
    ELSE 0

\* FallbackPolicy with a delete that removes the last occurrence.
FallbackPolicyDeleteLast(cur, req) ==
  LET index == IndexOf(cur, req.choiceValue) IN
  CASE req.action = "add" ->
         IF ~Includes(cur, req.choiceValue)
           THEN [options |-> cur \o <<req.choiceValue>>, modified |-> TRUE]
           ELSE [options |-> cur, modified |-> FALSE]
    [] req.action = "delete" ->
         IF index /= 0
           THEN [options |-> FilterOut(cur, LastIndexOf(cur, req.choiceValue)),
                 modified |-> TRUE]
           ELSE [options |-> cur, modified |-> FALSE]
    [] req.action = "update" ->
         IF index /= 0 /\ Truthy(req.newChoiceValue)
           THEN [options |-> [cur EXCEPT ![index] = req.newChoiceValue],
                 modified |-> TRUE]
           ELSE [options |-> cur, modified |-> FALSE]
    [] OTHER -> [options |-> cur, modified |-> FALSE]

\* FallbackPolicy with an update that does not test newChoiceValue.
FallbackPolicyUpdateAlways(cur, req) ==
  LET index == IndexOf(cur, req.choiceValue) IN
  CASE req.action = "add" ->
         IF ~Includes(cur, req.choiceValue)
           THEN [options |-> cur \o <<req.choiceValue>>, modified |-> TRUE]
           ELSE [options |-> cur, modified |-> FALSE]
    [] req.action = "delete" ->
         IF index /= 0
           THEN [options |-> FilterOut(cur, index), modified |-> TRUE]
           ELSE [options |-> cur, modified |-> FALSE]
    [] req.action = "update" ->
         IF index /= 0
           THEN [options |-> [cur EXCEPT ![index] = req.newChoiceValue],
                 modified |-> TRUE]
           ELSE [options |-> cur, modified |-> FALSE]
    [] OTHER -> [options |-> cur, modified |-> FALSE]

\* The switch of modifyWithFallback, which builds a new array.
FallbackPolicy(cur, req) ==
  LET index == IndexOf(cur, req.choiceValue) IN
  CASE req.action = "add" ->
         IF ~Includes(cur, req.choiceValue)
           THEN [options |-> cur \o <<req.choiceValue>>, modified |-> TRUE]
           ELSE [options |-> cur, modified |-> FALSE]
    [] req.action = "delete" ->
         IF index /= 0
           THEN [options |-> FilterOut(cur, index), modified |-> TRUE]
           ELSE [options |-> cur, modified |-> FALSE]
    [] req.action = "update" ->
         IF index /= 0 /\ Truthy(req.newChoiceValue)
           THEN [options |-> [cur EXCEPT ![index] = req.newChoiceValue],
                 modified |-> TRUE]
           ELSE [options |-> cur, modified |-> FALSE]
    [] OTHER -> [options |-> cur, modified |-> FALSE]

-----------------------------------------------------------------------------
\* The two exported functions.  Each yields the text it returns together with
\* what it computed on the way; outcome names the return statement taken.

Outcome(text, cur, new, mod, how) ==
  [result |-> text, currentOptions |-> cur, newOptions |-> new,
   modified |-> mod, outcome |-> how]

\* modifyWithFallback without the return on an empty scan.
ModifyWithFallbackNoGuard(text, req) ==
  LET cur == ExtractOptionsWithRegex(text, req.inputName)
      p == FallbackPolicy(cur, req)
  IN  IF ~p.modified
        THEN Outcome(text, cur, p.options, FALSE, "fallback-unchanged")
        ELSE Outcome(ReplaceOptionsWithRegex(text, req.inputName, p.options),
                     cur, p.options, TRUE, "fallback-spliced")

\* modifyWithFallback
ModifyWithFallback(text, req) ==
  LET cur == ExtractOptionsWithRegex(text, req.inputName) IN
  IF Len(cur) = 0
    THEN Outcome(text, cur, cur, FALSE, "fallback-not-found")
    ELSE LET p == FallbackPolicy(cur, req) IN
         IF ~p.modified
           THEN Outcome(text, cur, p.options, FALSE, "fallback-unchanged")
           ELSE Outcome(ReplaceOptionsWithRegex(text, req.inputName, p.options),
                        cur, p.options, TRUE, "fallback-spliced")

\* doc.errors as read after the tree edit: createNode and set report nothing.
ErrorsAfterEdit(text) == DocErrors(text)

\* modifyWorkflowContent from doc.toJS() on, for a document the parser
\* accepted.  "throws" is the TypeError of reading .on of null.
StructuralEdit(text, req) ==
  IF RootIsNull(text)
    THEN Outcome(text, <<>>, <<>>, FALSE, "throws")
  ELSE IF NoInputs(text)
    THEN Outcome(text, <<>>, <<>>, FALSE, "no-inputs")
  ELSE IF NoInput(text, req.inputName)
    THEN Outcome(text, <<>>, <<>>, FALSE, "no-input")
  ELSE IF Ineligible(text, req.inputName)
    THEN Outcome(text, <<>>, <<>>, FALSE, "ineligible")
  ELSE
    LET cur == InputOptions(text, req.inputName)
        p == StructuralPolicy(cur, req)
    IN  IF ~p.modified
          THEN Outcome(text, cur, p.options, FALSE, "unchanged")
        ELSE IF ErrorsAfterEdit(text)
          THEN Outcome(ReplaceOptionsWithRegex(text, req.inputName, p.options),
                       cur, p.options, TRUE, "spliced-after-edit")
        ELSE Outcome(SetOptionsToString(text, req.inputName, p.options),
                     cur, p.options, TRUE, "serialized")

-----------------------------------------------------------------------------
\* Documents and requests the calls are made with.

\* The text after the dash of the list items of a generated document:
\* "- a" and "- 'b'".
ItemTexts == {<<SP, "a">>, <<SP, Q, "b", Q>>}

ItemLists == UNION {[1..n -> ItemTexts] : n \in 0..MaxOptions}

Header ==
  <<KeyLine(0, "name", "Deploy"), KeyLine(0, "on", ""),
    KeyLine(2, "workflow_dispatch", ""), KeyLine(4, "inputs", "")>>

\* The list items of an options block; deco puts a comment or a blank line
\* after the first item.
ItemBlock(items, deco) ==
  LET ls == [n \in 1..Len(items) |-> ItemLine(10, items[n])] IN
  IF deco = "none" \/ ls = <<>> THEN ls
  ELSE <<ls[1]>>
         \o <<IF deco = "comment" THEN CommentLine(10) ELSE BlankLine>>
         \o Tail(ls)

\* One entry of inputs: form "none" has no options key, "flow" has
\* 'options: []', "block" has 'options:' followed by the items.
InputBlock(name, type, form, items, deco) ==
  <<KeyLine(6, name, ""), KeyLine(8, "type", type)>>
    \o (CASE form = "none" -> <<>>
          [] form = "flow" -> <<KeyLine(8, "options", "[]")>>
          [] form = "block" ->
               <<KeyLine(8, "options", "")>> \o ItemBlock(items, deco))

\* What follows the inputs; bad puts a malformed fragment there.
Trailer(bad) ==
  <<KeyLine(0, "jobs", ""),
    IF bad THEN BadLine(2) ELSE KeyLine(2, "env", "x"),
    BlankLine>>

OptionForms ==
  {<<"none", <<>>>>, <<"flow", <<>>>>} \cup {<<"block", l>> : l \in ItemLists}

\* One input named env.
SingleDocs ==
  {Header \o InputBlock("env", t, f[1], f[2], "none") \o Trailer(bad) :
     t \in {"choice", "string"}, f \in OptionForms, bad \in BOOLEAN}

\* One choice input whose items are separated by a comment or a blank line.
DecoratedDocs ==
  {Header \o InputBlock("env", "choice", "block", l, d) \o Trailer(FALSE) :
     l \in ItemLists \ {<<>>}, d \in {"comment", "blank"}}

\* Two choice inputs, env and inputs, in both orders.
TwoInputDocs ==
  {Header \o InputBlock(n[1], "choice", "block", l, "none")
          \o InputBlock(n[2], "choice", "block", <<<<SP, Q, "b", Q>>>>, "none")
          \o Trailer(bad) :
     n \in {<<"env", "inputs">>, <<"inputs", "env">>},
     l \in {<<<<SP, "a">>>>, <<<<SP, "a">>, <<SP, Q, "b", Q>>>>},
     bad \in BOOLEAN}

\* A top-level env block precedes the workflow.
EnvFirstDocs ==
  {<<KeyLine(0, "env", ""), KeyLine(2, "TARGET", "x")>> \o Header
     \o InputBlock("env", "choice", "block", <<<<SP, "a">>>>, "none")
     \o Trailer(bad) : bad \in BOOLEAN}

\* Documents without the path on.workflow_dispatch.inputs.
PathlessDocs ==
  { <<BlankLine>>,
    <<CommentLine(0), BlankLine>>,
    <<ScalarLine(0), BlankLine>>,
    <<ItemLine(0, <<SP, "a">>), BlankLine>>,
    <<KeyLine(0, "name", "Deploy"), BlankLine>>,
    <<KeyLine(0, "on", "push"), BlankLine>>,
    <<KeyLine(0, "on", ""), KeyLine(2, "push", ""), BlankLine>>,
    <<KeyLine(0, "on", ""), KeyLine(2, "workflow_dispatch", ""), BlankLine>>,
    <<KeyLine(0, "on", ""), KeyLine(2, "workflow_dispatch", ""),
      KeyLine(4, "inputs", ""), BlankLine>> }

Documents ==
  SingleDocs \cup DecoratedDocs \cup TwoInputDocs \cup EnvFirstDocs
    \cup PathlessDocs

Request(a, n, v, nv) ==
  [action |-> a, inputName |-> n, choiceValue |-> v, newChoiceValue |-> nv]

ChoiceValues == {<<"a">>, <<"b">>, <<Q, "a", Q>>}

NewChoiceValues == {Undefined, <<>>, <<"a">>, <<"b">>}

Requests ==
  {Request(a, "env", v, Undefined) : a \in {"add", "delete"}, v \in ChoiceValues}
    \cup {Request("update", "env", v, nv) :
            v \in ChoiceValues, nv \in NewChoiceValues}
    \cup {Request(a, n, <<"a">>, <<"b">>) :
            a \in {"add", "delete", "update"}, n \in {"inputs", "region"}}

EntryPoints == {"modifyWorkflowContent", "modifyWithFallback"}

-----------------------------------------------------------------------------
\* The calls.

FirstStep(e) == IF e = "modifyWorkflowContent" THEN "TryStructural" ELSE "Fallback"

NoCall ==
  [kind |-> "none", entry |-> "", content |-> <<>>, result |-> <<>>,
   strategy |-> "none", outcome |-> "", newOptions |-> <<>>]

ThisCall(kind) ==
  [kind |-> kind, entry |-> entry, content |-> content, result |-> result,
   strategy |-> strategy, outcome |-> outcome, newOptions |-> newOptions]

\* What core.setOutput has set: nothing yet.
NoOutputs == [set |-> FALSE, updatedWorkflows |-> <<>>, changesMade |-> FALSE]

\* No run of the action is under way: the exported functions are called
\* directly.
NoRun ==
  /\ workflows = <<>>
  /\ cursor = 0
  /\ updatedWorkflows = <<>>
  /\ apiCalls = <<>>
  /\ settled = "pending"
  /\ outputs = NoOutputs
  /\ failed = FALSE
  /\ remote = <<>>
  /\ fileData = 0
  /\ warnings = <<>>

Init ==
  /\ content \in Documents
  /\ options \in Requests
  /\ entry \in EntryPoints
  /\ pc = FirstStep(entry)
  /\ currentOptions = <<>>
  /\ newOptions = <<>>
  /\ modified = FALSE
  /\ result = <<>>
  /\ thrown = FALSE
  /\ strategy = "none"
  /\ outcome = ""
  /\ calls = 1
  /\ prev = NoCall
  /\ NoRun

Return(r, by) ==
  /\ pc' = "Done"
  /\ currentOptions' = r.currentOptions
  /\ newOptions' = r.newOptions
  /\ modified' = r.modified
  /\ thrown' = (r.outcome = "throws")
  /\ result' = IF r.outcome = "throws" THEN <<>> ELSE r.result
  /\ strategy' = by
  /\ outcome' = r.outcome
  /\ UNCHANGED <<content, options, entry, calls, prev>>
  /\ UNCHANGED runVars

\* ParseErrors without the doc.errors test: every request may go to
\* modifyWithFallback.
ParseErrorsAlways ==
  /\ pc = "TryStructural"
  /\ pc' = "Fallback"
  /\ UNCHANGED <<content, options, entry, currentOptions, newOptions, modified,
                 result, thrown, strategy, outcome, calls, prev>>
  /\ UNCHANGED runVars

\* modifyWorkflowContent finds doc.errors non-empty and hands the request to
\* modifyWithFallback.
ParseErrors ==
  /\ pc = "TryStructural"
  /\ DocErrors(content)
  /\ pc' = "Fallback"
  /\ UNCHANGED <<content, options, entry, currentOptions, newOptions, modified,
                 result, thrown, strategy, outcome, calls, prev>>
  /\ UNCHANGED runVars

\* modifyWorkflowContent on a document without parse errors.
Structural ==
  /\ pc = "TryStructural"
  /\ ~DocErrors(content)
  /\ Return(StructuralEdit(content, options), "structural")

\* modifyWithFallback, called by modifyWorkflowContent or directly.
Fallback ==
  /\ pc = "Fallback"
  /\ Return(ModifyWithFallback(content, options), "fallback")

NextCall(kind, text, e) ==
  /\ pc = "Done"
  /\ ~thrown
  /\ calls < MaxCalls
  /\ prev' = ThisCall(kind)
  /\ content' = text
  /\ entry' = e
  /\ pc' = FirstStep(e)
  /\ calls' = calls + 1
  /\ currentOptions' = <<>>
  /\ newOptions' = <<>>
  /\ modified' = FALSE
  /\ result' = <<>>
  /\ strategy' = "none"
  /\ outcome' = ""
  /\ UNCHANGED <<options, thrown>>
  /\ UNCHANGED runVars

\* The caller applies the same request to the text it got back.
Reapply == NextCall("reapply", result, entry)

\* The caller runs the same request on the same text through the other
\* exported function.
CrossCheck ==
  NextCall("cross", content,
           IF entry = "modifyWorkflowContent" THEN "modifyWithFallback"
                                              ELSE "modifyWorkflowContent")

Next == ParseErrors \/ Structural \/ Fallback \/ Reapply \/ CrossCheck

Spec == Init /\ [][Next]_vars

-----------------------------------------------------------------------------
\* The two scanners called on their own, as their unit tests call them:
\* extractOptionsWithRegex(content, inputName) and
\* replaceOptionsWithRegex(content, inputName, newOptions).

\* Longest newOptions given to replaceOptionsWithRegex.
MaxNewOptions == 2

PlainValues == {<<"a">>, <<"b">>}

RECURSIVE SeqsUpTo(_, _)
SeqsUpTo(S, n) ==
  IF n = 0 THEN {<<>>}
  ELSE LET shorter == SeqsUpTo(S, n - 1) IN
       shorter \cup {Append(q, x) : q \in shorter, x \in S}

NewOptionLists == SeqsUpTo(PlainValues, MaxNewOptions)

ScanNames == {"env", "inputs", "region"}

ScanInit ==
  /\ content \in Documents
  /\ options \in {Request("add", n, <<"a">>, Undefined) : n \in ScanNames}
  /\ newOptions \in NewOptionLists
  /\ entry = "extractOptionsWithRegex"
  /\ pc = "Extract"
  /\ currentOptions = <<>>
  /\ modified = FALSE
  /\ result = <<>>
  /\ thrown = FALSE
  /\ strategy = "none"
  /\ outcome = ""
  /\ calls = 1
  /\ prev = NoCall
  /\ NoRun

\* extractOptionsWithRegex(content, inputName)
ExtractCall ==
  /\ pc = "Extract"
  /\ currentOptions' = ExtractOptionsWithRegex(content, options.inputName)
  /\ entry' = "replaceOptionsWithRegex"
  /\ pc' = "Replace"
  /\ UNCHANGED <<content, options, newOptions, modified, result, thrown,
                 strategy, outcome, calls, prev>>
  /\ UNCHANGED runVars

\* replaceOptionsWithRegex(content, inputName, newOptions)
ReplaceCall ==
  /\ pc = "Replace"
  /\ result' = ReplaceOptionsWithRegex(content, options.inputName, newOptions)
  /\ pc' = "Replaced"
  /\ UNCHANGED <<content, options, entry, currentOptions, newOptions, modified,
                 thrown, strategy, outcome, calls, prev>>
  /\ UNCHANGED runVars

ScanNext == ExtractCall \/ ReplaceCall

ScanSpec == ScanInit /\ [][ScanNext]_vars

-----------------------------------------------------------------------------
\* updateWorkflowChoices as run calls it.  Each await is a step whose outcome
\* the GitHub API decides; between two awaits the code runs without
\* interruption.  modifyWorkflowContent is the call modelled above.

WorkflowNames == {"a.yml", "b.yml"}

WorkflowLists == SeqsUpTo(WorkflowNames, MaxWorkflows)

\* error.status of a rejected request.
ErrorStatuses == {404, 500}

\* The texts a fetched file decodes to: a workflow the parser accepts, one
\* with a parse error, a comment-only file and a file without inputs.
FetchedDocuments ==
  { Header \o InputBlock("env", "choice", "block", <<<<SP, "a">>>>, "none")
           \o Trailer(FALSE),
    Header \o InputBlock("env", "choice", "block", <<<<SP, "a">>>>, "none")
           \o Trailer(TRUE),
    <<CommentLine(0), BlankLine>>,
    <<KeyLine(0, "name", "Deploy"), BlankLine>> }

RunRequests ==
  { Request("add", "env", <<"a">>, Undefined),
    Request("add", "env", <<"b">>, Undefined),
    Request("delete", "env", <<"a">>, Undefined) }

ApiCall(method, status, file) ==
  [method |-> method, at |-> cursor, status |-> status, file |-> file]

\* The revision every workflow file has when the run starts.
FirstRevision == 1

\* core.warning(`... skipping`) about the current workflow file.
Warn(about) == warnings' = Append(warnings, [at |-> cursor, about |-> about])

\* A commit that names whatever revision the file has when it is sent.
CommitShaLatest == remote[workflows[cursor]]

\* sha: fileData.sha, the revision token createOrUpdateFileContents is given.
CommitSha == fileData

\* The store takes a write to an existing file only when the request names
\* the revision the file has (a conflict otherwise).
StoreAccepts(name, sha) == remote[name] = sha

RunInit ==
  /\ remote = [f \in WorkflowNames |-> FirstRevision]
  /\ fileData = 0
  /\ warnings = <<>>
  /\ options \in RunRequests
  /\ workflows \in WorkflowLists
  /\ cursor = 1
  /\ updatedWorkflows = <<>>
  /\ apiCalls = <<>>
  /\ settled = "pending"
  /\ outputs = NoOutputs
  /\ failed = FALSE
  /\ content = <<>>
  /\ entry = "updateWorkflowChoices"
  /\ pc = "GetContent"
  /\ currentOptions = <<>>
  /\ newOptions = <<>>
  /\ modified = FALSE
  /\ result = <<>>
  /\ thrown = FALSE
  /\ strategy = "none"
  /\ outcome = ""
  /\ calls = 1
  /\ prev = NoCall

\* The values of one modifyWorkflowContent call, before it is made.
CallIdle ==
  /\ currentOptions' = <<>>
  /\ newOptions' = <<>>
  /\ modified' = FALSE
  /\ result' = <<>>
  /\ thrown' = FALSE
  /\ strategy' = "none"
  /\ outcome' = ""

\* continue: the loop goes on with the next workflow file.
Continue ==
  /\ cursor' = cursor + 1
  /\ pc' = "GetContent"
  /\ UNCHANGED <<settled, outputs, failed>>

\* throw error: the promise rejects and run's catch calls core.setFailed.
Reject ==
  /\ settled' = "rejected"
  /\ failed' = TRUE
  /\ pc' = "Exit"
  /\ UNCHANGED <<cursor, outputs>>

\* getContent answers with a file; its text goes to modifyWorkflowContent.
GetContentFile ==
  /\ pc = "GetContent"
  /\ cursor <= Len(workflows)
  /\ \E doc \in FetchedDocuments : content' = doc
  /\ apiCalls' = Append(apiCalls, ApiCall("getContent", 200, TRUE))
  /\ entry' = "modifyWorkflowContent"
  /\ pc' = FirstStep("modifyWorkflowContent")
  /\ fileData' = remote[workflows[cursor]]
  /\ CallIdle
  /\ UNCHANGED <<options, calls, prev, workflows, cursor, updatedWorkflows,
                 settled, outputs, failed>>
  /\ UNCHANGED <<remote, warnings>>

\* getContent answers without content (a directory, an empty file):
\* !fileData.content.
GetContentNotFile ==
  /\ pc = "GetContent"
  /\ cursor <= Len(workflows)
  /\ apiCalls' = Append(apiCalls, ApiCall("getContent", 200, FALSE))
  /\ Warn("not a file")
  /\ Continue
  /\ UNCHANGED <<content, options, entry, currentOptions, newOptions, modified,
                 result, thrown, strategy, outcome, calls, prev, workflows,
                 updatedWorkflows>>
  /\ UNCHANGED <<remote, fileData>>

\* GetContentFails with a catch that rethrows every error.
GetContentFailsRethrows ==
  /\ pc = "GetContent"
  /\ cursor <= Len(workflows)
  /\ \E status \in ErrorStatuses :
       /\ apiCalls' = Append(apiCalls, ApiCall("getContent", status, FALSE))
       /\ Reject
  /\ UNCHANGED <<content, options, entry, currentOptions, newOptions, modified,
                 result, thrown, strategy, outcome, calls, prev, workflows,
                 updatedWorkflows>>
  /\ UNCHANGED <<remote, fileData, warnings>>

\* GetContentFails with a catch that skips every error.
GetContentFailsSkips ==
  /\ pc = "GetContent"
  /\ cursor <= Len(workflows)
  /\ \E status \in ErrorStatuses :
       /\ apiCalls' = Append(apiCalls, ApiCall("getContent", status, FALSE))
       /\ Warn("not found")
       /\ Continue
  /\ UNCHANGED <<content, options, entry, currentOptions, newOptions, modified,
                 result, thrown, strategy, outcome, calls, prev, workflows,
                 updatedWorkflows>>
  /\ UNCHANGED <<remote, fileData>>

\* GetContentFails with a second attempt after an error other than 404.
GetContentFailsRetries ==
  /\ pc = "GetContent"
  /\ cursor <= Len(workflows)
  /\ \E status \in ErrorStatuses :
       /\ apiCalls' = Append(apiCalls, ApiCall("getContent", status, FALSE))
       /\ IF status = 404 THEN Warn("not found") ELSE UNCHANGED warnings
       /\ IF status = 404 THEN Continue
          ELSE IF \E n \in 1..Len(apiCalls) : apiCalls[n].at = cursor
            THEN Reject
          ELSE UNCHANGED <<pc, cursor, settled, outputs, failed>>
  /\ UNCHANGED <<content, options, entry, currentOptions, newOptions, modified,
                 result, thrown, strategy, outcome, calls, prev, workflows,
                 updatedWorkflows>>
  /\ UNCHANGED <<remote, fileData>>

\* getContent rejects; the catch skips a 404 and rethrows anything else.
GetContentFails ==
  /\ pc = "GetContent"
  /\ cursor <= Len(workflows)
  /\ \E status \in ErrorStatuses :
       /\ apiCalls' = Append(apiCalls, ApiCall("getContent", status, FALSE))
       /\ IF status = 404 THEN Warn("not found") ELSE UNCHANGED warnings
       /\ IF status = 404 THEN Continue ELSE Reject
  /\ UNCHANGED <<content, options, entry, currentOptions, newOptions, modified,
                 result, thrown, strategy, outcome, calls, prev, workflows,
                 updatedWorkflows>>
  /\ UNCHANGED <<remote, fileData>>

\* modifyWorkflowContent threw inside the try block: the error has no status
\* 404, so the catch rethrows it.
ModifyThrows ==
  /\ pc = "Done"
  /\ settled = "pending"
  /\ cursor >= 1
  /\ thrown
  /\ Reject
  /\ UNCHANGED <<content, options, entry, currentOptions, newOptions, modified,
                 result, thrown, strategy, outcome, calls, prev, workflows,
                 updatedWorkflows, apiCalls>>
  /\ UNCHANGED <<remote, fileData, warnings>>

\* NoChangesNeeded without the comparison: the commit is issued anyway.
NoChangesNeededCommits ==
  /\ pc = "Done"
  /\ settled = "pending"
  /\ cursor >= 1
  /\ ~thrown
  /\ result = content
  /\ pc' = "CreateOrUpdate"
  /\ UNCHANGED <<content, options, entry, currentOptions, newOptions, modified,
                 result, thrown, strategy, outcome, calls, prev>>
  /\ UNCHANGED runVars

\* updatedContent === currentContent: no commit.
NoChangesNeeded ==
  /\ pc = "Done"
  /\ settled = "pending"
  /\ cursor >= 1
  /\ ~thrown
  /\ result = content
  /\ Continue
  /\ UNCHANGED <<content, options, entry, currentOptions, newOptions, modified,
                 result, thrown, strategy, outcome, calls, prev, workflows,
                 updatedWorkflows, apiCalls>>
  /\ UNCHANGED <<remote, fileData, warnings>>

\* The texts differ: createOrUpdateFileContents is issued and awaited.
IssueCommit ==
  /\ pc = "Done"
  /\ settled = "pending"
  /\ cursor >= 1
  /\ ~thrown
  /\ result /= content
  /\ pc' = "CreateOrUpdate"
  /\ UNCHANGED <<content, options, entry, currentOptions, newOptions, modified,
                 result, thrown, strategy, outcome, calls, prev>>
  /\ UNCHANGED runVars

\* createOrUpdateFileContents succeeds: the file name is pushed.
CommitSucceeds ==
  /\ pc = "CreateOrUpdate"
  /\ StoreAccepts(workflows[cursor], CommitSha)
  /\ remote' = [remote EXCEPT ![workflows[cursor]] = @ + 1]
  /\ apiCalls' =
       Append(apiCalls, ApiCall("createOrUpdateFileContents", 200, TRUE))
  /\ updatedWorkflows' = Append(updatedWorkflows, workflows[cursor])
  /\ Continue
  /\ UNCHANGED <<content, options, entry, currentOptions, newOptions, modified,
                 result, thrown, strategy, outcome, calls, prev, workflows>>
  /\ UNCHANGED <<fileData, warnings>>

\* CommitFails with the push placed before the request.
CommitFailsPushes ==
  /\ pc = "CreateOrUpdate"
  /\ updatedWorkflows' = Append(updatedWorkflows, workflows[cursor])
  /\ \E status \in ErrorStatuses :
       /\ apiCalls' =
            Append(apiCalls,
                   ApiCall("createOrUpdateFileContents", status, TRUE))
       /\ IF status = 404 THEN Warn("not found") ELSE UNCHANGED warnings
       /\ IF status = 404 THEN Continue ELSE Reject
  /\ UNCHANGED <<content, options, entry, currentOptions, newOptions, modified,
                 result, thrown, strategy, outcome, calls, prev, workflows>>
  /\ UNCHANGED <<remote, fileData>>

\* CommitFails with a catch that rethrows every error of the commit.
CommitFailsRethrows ==
  /\ pc = "CreateOrUpdate"
  /\ \E status \in ErrorStatuses :
       /\ apiCalls' =
            Append(apiCalls,
                   ApiCall("createOrUpdateFileContents", status, TRUE))
       /\ Reject
  /\ UNCHANGED <<content, options, entry, currentOptions, newOptions, modified,
                 result, thrown, strategy, outcome, calls, prev, workflows,
                 updatedWorkflows>>
  /\ UNCHANGED <<remote, fileData, warnings>>

\* createOrUpdateFileContents rejects; the same catch skips a 404 and
\* rethrows anything else.
CommitFails ==
  /\ pc = "CreateOrUpdate"
  /\ \E status \in ErrorStatuses :
       /\ apiCalls' =
            Append(apiCalls,
                   ApiCall("createOrUpdateFileContents", status, TRUE))
       /\ IF status = 404 THEN Warn("not found") ELSE UNCHANGED warnings
       /\ IF status = 404 THEN Continue ELSE Reject
  /\ UNCHANGED <<content, options, entry, currentOptions, newOptions, modified,
                 result, thrown, strategy, outcome, calls, prev, workflows,
                 updatedWorkflows>>
  /\ UNCHANGED <<remote, fileData>>

\* The loop is over: updateWorkflowChoices returns { updatedWorkflows,
\* changesMade } and run sets the two outputs from it.
ReturnResult ==
  /\ pc = "GetContent"
  /\ cursor > Len(workflows)
  /\ settled' = "fulfilled"
  /\ outputs' = [set |-> TRUE, updatedWorkflows |-> updatedWorkflows,
                 changesMade |-> Len(updatedWorkflows) > 0]
  /\ pc' = "Exit"
  /\ UNCHANGED <<content, options, entry, currentOptions, newOptions, modified,
                 result, thrown, strategy, outcome, calls, prev, workflows,
                 cursor, updatedWorkflows, apiCalls, failed>>
  /\ UNCHANGED <<remote, fileData, warnings>>

RunNext ==
  \/ GetContentFile \/ GetContentNotFile \/ GetContentFails
  \/ ParseErrors \/ Structural \/ Fallback
  \/ ModifyThrows \/ NoChangesNeeded \/ IssueCommit
  \/ CommitSucceeds \/ CommitFails
  \/ ReturnResult

RunSpec == RunInit /\ [][RunNext]_vars

\* The steps of Structural and Fallback as pc shows them.  StructuralEdit and
\* ModifyWithFallback are defined on every document, so each action can be
\* taken exactly when its guard holds, and they are the only actions that
\* take pc to "Done".
ModifyReturns ==
  /\ \/ pc = "TryStructural" /\ ~DocErrors(content)
     \/ pc = "Fallback"
  /\ pc' = "Done"

\* The steps of the run other than Structural and Fallback.
RunNextOther ==
  \/ GetContentFile \/ GetContentNotFile \/ GetContentFails
  \/ ParseErrors
  \/ ModifyThrows \/ NoChangesNeeded \/ IssueCommit
  \/ CommitSucceeds \/ CommitFails
  \/ ReturnResult

\* Every remote call returns or fails, and the code between two awaits runs
\* to its end: a step that can be taken is taken.
FairRunSpec ==
  /\ RunInit /\ [][RunNext]_vars
  /\ WF_vars(RunNextOther)
  /\ WF_pc(ModifyReturns)

-----------------------------------------------------------------------------
\* The run next to another writer of the same branch.  The store answers a
\* createOrUpdateFileContents whose sha is not the revision of the file with
\* 409 Conflict, an error the catch rethrows.

\* Another writer commits a new revision of a workflow file.
OtherWriterCommits ==
  /\ settled = "pending"
  /\ \E f \in WorkflowNames :
       /\ remote[f] <= MaxOtherWrites
       /\ remote' = [remote EXCEPT ![f] = @ + 1]
  /\ UNCHANGED <<content, options, entry, pc, currentOptions, newOptions,
                 modified, result, thrown, strategy, outcome, calls, prev,
                 workflows, cursor, updatedWorkflows, apiCalls, settled,
                 outputs, failed, fileData, warnings>>

\* createOrUpdateFileContents is sent with a sha that is no longer the
\* revision of the file: the store rejects it.
CommitConflict ==
  /\ pc = "CreateOrUpdate"
  /\ ~StoreAccepts(workflows[cursor], CommitSha)
  /\ apiCalls' =
       Append(apiCalls, ApiCall("createOrUpdateFileContents", 409, TRUE))
  /\ Reject
  /\ UNCHANGED <<content, options, entry, currentOptions, newOptions, modified,
                 result, thrown, strategy, outcome, calls, prev, workflows,
                 updatedWorkflows, remote, fileData, warnings>>

SharedNext == RunNext \/ OtherWriterCommits \/ CommitConflict

SharedSpec == RunInit /\ [][SharedNext]_vars

-----------------------------------------------------------------------------
\* Properties.

\* The input the request names is eligible for the function that produced the
\* result: a choice input with an options array for modifyWorkflowContent, a
\* non-empty scan for modifyWithFallback.
EligibleForStrategy ==
  IF strategy = "structural"
    THEN /\ ~RootIsNull(content)
         /\ ~NoInputs(content)
         /\ ~NoInput(content, options.inputName)
         /\ ~Ineligible(content, options.inputName)
    ELSE ExtractOptionsWithRegex(content, options.inputName) /= <<>>

\* The option sequence that function reads from the document.
SequenceRead ==
  IF strategy = "structural"
    THEN InputOptions(content, options.inputName)
    ELSE ExtractOptionsWithRegex(content, options.inputName)

\* A call on an eligible input has returned.
PolicyRan(action) ==
  /\ pc = "Done"
  /\ options.action = action
  /\ strategy \in {"structural", "fallback"}
  /\ EligibleForStrategy

DispatchedSequence ==
  IF DocErrors(content)
    THEN ExtractOptionsWithRegex(content, options.inputName)
  ELSE IF /\ ~RootIsNull(content)
          /\ ~NoInputs(content)
          /\ ~NoInput(content, options.inputName)
          /\ ~Ineligible(content, options.inputName)
    THEN InputOptions(content, options.inputName)
  ELSE <<>>

\* The end state the request asks for is the state of the document.
EndStateHolds ==
  LET present == \E i \in 1..Len(DispatchedSequence) :
                   DispatchedSequence[i] = options.choiceValue
  IN  \/ options.action = "add" /\ present
      \/ options.action \in {"delete", "update"} /\ ~present

\* C4: idempotence: for any document and any request whose end state already
\* holds (add of a present value, delete of an absent value, update of an
\* absent old value) modifyWorkflowContent returns the input text unchanged.
C4_Idempotent ==
  (pc = "Done" /\ entry = "modifyWorkflowContent" /\ EndStateHolds) =>
    (~thrown /\ result = content)

\* C5: Add is set-like: applying Add(v) to the text a first Add(v) returned
\* changes nothing, in modifyWorkflowContent and in modifyWithFallback.
C5_AddTwiceIsAddOnce ==
  (pc = "Done" /\ prev.kind = "reapply" /\ options.action = "add") =>
    (~thrown /\ result = prev.result)

\* A segment of on.workflow_dispatch.inputs.<inputName> is absent.
PathAbsent == Input(content, options.inputName) = 0

\* C6: when a segment of on.workflow_dispatch.inputs.<inputName> is absent,
\* modifyWorkflowContent returns the input text unchanged and raises nothing,
\* whatever the document (empty, null root, scalar or list root included).
C6_NotFoundNeverThrows ==
  (pc = "Done" /\ entry = "modifyWorkflowContent" /\ PathAbsent) =>
    (~thrown /\ result = content)

\* The request names an input the document has.
InputPresent == ~NoInput(content, options.inputName)

\* C7: a request naming an input whose type is not "choice" or whose options
\* is not a sequence leaves the text unchanged, whichever of the two strategies
\* modifyWorkflowContent takes, the scan of a document with parse errors
\* included.
C7_IneligibleNeverMutated ==
  (/\ pc = "Done"
   /\ entry = "modifyWorkflowContent"
   /\ InputPresent
   /\ Ineligible(content, options.inputName)) =>
    (~thrown /\ result = content)

OptionsOf(text, inputName) ==
  IF OptionsIsArray(text, inputName)
    THEN InputOptions(text, inputName)
    ELSE <<>>

\* C9: for a well-formed document and any request, the target input's option
\* sequence after modifyWorkflowContent equals the one after modifyWithFallback
\* on the same document and request.
C9_StrategiesAgree ==
  (/\ pc = "Done"
   /\ prev.kind = "cross"
   /\ ~DocErrors(content)) =>
    /\ ~thrown
    /\ OptionsOf(result, options.inputName)
         = OptionsOf(prev.result, options.inputName)

\* The input of a two-input document the request does not name.
OtherInput == IF options.inputName = "env" THEN "inputs" ELSE "env"

\* The document has the two inputs env and inputs, both eligible, and the
\* request names one of them.
TwoEligibleInputs ==
  /\ options.inputName \in {"env", "inputs"}
  /\ \A n \in {"env", "inputs"} :
       ~NoInput(content, n) /\ ~Ineligible(content, n)

\* C10: in a document with two eligible inputs, a request on one leaves the
\* option sequence of the other unchanged, whichever comes first.
C10_OnlyNamedInput ==
  (pc = "Done" /\ TwoEligibleInputs) =>
    /\ ~thrown
    /\ OptionsOf(result, OtherInput) = OptionsOf(content, OtherInput)

\* The positions of the list-item lines extractOptionsWithRegex reads for
\* inputName: the scan of ExtractScan, keeping where each option was found.
RECURSIVE ReadScan(_, _, _, _)
ReadScan(lines, i, inputName, st) ==
  IF i > Len(lines) THEN st.options
  ELSE
    LET line == lines[i]
        next(s) == ReadScan(lines, i + 1, inputName, s)
    IN
    IF StartsWithInput(line, inputName)
      THEN next([st EXCEPT !.inTargetInput = TRUE, !.inputIndent = line.ind])
    ELSE IF ~st.inTargetInput THEN next(st)
    ELSE IF ~TrimmedEmpty(line) /\ line.ind <= st.inputIndent
            /\ ~StartsWithDash(line)
      THEN st.options
    ELSE IF IsOptionsLine(line)
      THEN next([st EXCEPT !.inOptions = TRUE, !.optionsIndent = line.ind])
    ELSE IF ~st.inOptions THEN next(st)
    ELSE IF ~TrimmedEmpty(line) /\ ~StartsWithDash(line)
            /\ line.ind <= st.optionsIndent
      THEN st.options
    ELSE IF StartsWithDash(line)
      THEN next([st EXCEPT !.options = Append(@, i)])
    ELSE next(st)

ItemLinesRead(lines, inputName) ==
  LET at == ReadScan(lines, 1, inputName, ExtractStart)
  IN  {at[n] : n \in 1..Len(at)}

\* The lines of a text that are not list-item lines of the options block the
\* scan reads for inputName, in order.
RECURSIVE FrameFrom(_, _, _)
FrameFrom(lines, i, skip) ==
  IF i > Len(lines) THEN <<>>
  ELSE IF i \in skip THEN FrameFrom(lines, i + 1, skip)
  ELSE <<lines[i]>> \o FrameFrom(lines, i + 1, skip)

Frame(lines, inputName) ==
  FrameFrom(lines, 1, ItemLinesRead(lines, inputName))

\* a[i..] appears in b[j..] in the same order.
RECURSIVE AppearsInOrder(_, _, _, _)
AppearsInOrder(a, i, b, j) ==
  IF i > Len(a) THEN TRUE
  ELSE IF j > Len(b) THEN FALSE
  ELSE IF a[i] = b[j] THEN AppearsInOrder(a, i + 1, b, j + 1)
  ELSE AppearsInOrder(a, i, b, j + 1)

\* C11: frame of replaceOptionsWithRegex: every line of the input that is not
\* a list-item line of the options block extractOptionsWithRegex reads for
\* inputName appears in the output unchanged and in the same order, so at most
\* one options block is rewritten and a malformed fragment elsewhere stays.
C11_SpliceFrame ==
  pc = "Replaced" =>
    AppearsInOrder(Frame(content, options.inputName), 1, result, 1)

\* C12: the splice discards all old items: when extractOptionsWithRegex reads
\* a non-empty list for inputName and newOptions is a non-empty sequence of
\* plain values, the list read from the text replaceOptionsWithRegex returns
\* is newOptions exactly, also when blank or comment lines separate the
\* original items.
C12_SpliceDiscardsOldItems ==
  (/\ pc = "Replaced"
   /\ currentOptions /= <<>>
   /\ newOptions /= <<>>) =>
    ExtractOptionsWithRegex(result, options.inputName) = newOptions

\* C13: extractOptionsWithRegex returns exactly the list items of the named
\* input's options block, in document order and with the surrounding quotes
\* stripped, never an item of another input, and the empty sequence when the
\* document has no such input or the input has no options.
C13_ExtractReadsNamedInput ==
  pc \in {"Replace", "Replaced"} =>
    currentOptions = OptionsOf(content, options.inputName)

\* C14: modifyWithFallback never writes when it cannot locate options: when
\* extractOptionsWithRegex returns the empty list it returns the text unchanged
\* for every action without calling replaceOptionsWithRegex; otherwise it
\* calls replaceOptionsWithRegex only when the switch set modified.
C14_FallbackWritesOnlyLocated ==
  (pc = "Done" /\ strategy = "fallback") =>
    LET cur == ExtractOptionsWithRegex(content, options.inputName) IN
    /\ ~thrown
    /\ cur = <<>> => (outcome = "fallback-not-found" /\ result = content)
    /\ outcome = "fallback-spliced" =>
         (cur /= <<>> /\ FallbackPolicy(cur, options).modified)
    /\ outcome /= "fallback-spliced" => result = content

\* An add for an input the document has, whose options the scan did not
\* locate.
C14_Witness ==
  /\ pc = "Done"
  /\ strategy = "fallback"
  /\ options.action = "add"
  /\ ~NoInput(content, options.inputName)
  /\ OptionsOf(content, options.inputName) /= <<>>
  /\ ExtractOptionsWithRegex(content, options.inputName) = <<>>
  /\ result = content

\* No line of the text starts with '<inputName>:'.
NeverLocated ==
  \A i \in 1..Len(content) : ~StartsWithInput(content[i], options.inputName)

\* C15: replaceOptionsWithRegex is the identity when inputName is never
\* located: when no line's trimmed text starts with '<inputName>:' the text
\* returned equals the input text for every newOptions, and nothing is raised.
C15_SpliceIdentityWhenNotLocated ==
  (pc = "Replaced" /\ NeverLocated) => (~thrown /\ result = content)

\* The splice was given options to write for a name no line starts with, in
\* a document that has an options block.
C15_Witness ==
  /\ pc = "Replaced"
  /\ NeverLocated
  /\ newOptions /= <<>>
  /\ \E i \in 1..Len(content) : IsOptionsLine(content[i])
  /\ result = content

\* The requests createOrUpdateFileContents answered with success.
SuccessfulCommits ==
  SelectSeq(apiCalls,
            LAMBDA c : c.method = "createOrUpdateFileContents"
                         /\ c.status = 200)

\* The entries of workflows those commits were made for.
CommittedEntries ==
  [n \in 1..Len(SuccessfulCommits) |-> workflows[SuccessfulCommits[n].at]]

\* C16: the result of updateWorkflowChoices: updatedWorkflows holds exactly
\* the entries of workflows for which a commit was issued and succeeded, in
\* the order of workflows, and changesMade is true iff updatedWorkflows is not
\* empty.
C16_ResultListsCommitted ==
  /\ updatedWorkflows = CommittedEntries
  /\ \A m, n \in 1..Len(SuccessfulCommits) :
       m < n => SuccessfulCommits[m].at < SuccessfulCommits[n].at
  /\ settled = "fulfilled" =>
       /\ outputs.set
       /\ outputs.updatedWorkflows = CommittedEntries
       /\ outputs.changesMade <=> (outputs.updatedWorkflows /= <<>>)

\* A run over two workflows returned with one committed and one not.
C16_Witness ==
  /\ settled = "fulfilled"
  /\ Len(workflows) = 2
  /\ Len(outputs.updatedWorkflows) = 1
  /\ outputs.changesMade
  /\ \E n \in 1..Len(apiCalls) :
       /\ apiCalls[n].method = "createOrUpdateFileContents"
       /\ apiCalls[n].status = 404

\* The step logs a createOrUpdateFileContents request.
CommitLogged ==
  /\ Len(apiCalls') = Len(apiCalls) + 1
  /\ apiCalls'[Len(apiCalls')].method = "createOrUpdateFileContents"

\* C17: no commit without a change: createOrUpdateFileContents is issued for
\* a workflow iff the text modifyWorkflowContent returned differs from the
\* fetched text; a workflow whose text comes back the same is neither
\* committed nor pushed to updatedWorkflows.
C17_CommitIffChanged ==
  /\ [](pc = "CreateOrUpdate" => (~thrown /\ result /= content))
  /\ [][(pc = "Done" /\ pc' /= "Done") =>
          /\ pc' = "CreateOrUpdate" <=> (~thrown /\ result /= content)
          /\ apiCalls' = apiCalls
          /\ updatedWorkflows' = updatedWorkflows]_vars
  /\ [][(CommitLogged \/ updatedWorkflows' /= updatedWorkflows) =>
          (pc = "CreateOrUpdate" /\ result /= content)]_vars

\* The first workflow needed no change and the loop went on to the second
\* without a request.
C17_Witness ==
  /\ pc = "GetContent"
  /\ cursor = 2
  /\ Len(workflows) = 2
  /\ outcome /= ""
  /\ ~thrown
  /\ result = content
  /\ Len(apiCalls) = 1
  /\ updatedWorkflows = <<>>

\* The fetch of entry k failed with status 404 or returned no content.
Skippable(k) ==
  \E n \in 1..Len(apiCalls) :
    /\ apiCalls[n].method = "getContent"
    /\ apiCalls[n].at = k
    /\ \/ apiCalls[n].status = 404
       \/ apiCalls[n].status = 200 /\ ~apiCalls[n].file

\* Entry k was fetched.
Fetched(k) ==
  \E n \in 1..Len(apiCalls) :
    apiCalls[n].method = "getContent" /\ apiCalls[n].at = k

\* C18: a workflow whose fetch fails with status 404 or returns no content
\* gets no commit and is not pushed to updatedWorkflows, raises nothing, and
\* the loop goes on: every later entry of workflows is still processed.
C18_SkippableDoNotStop ==
  \A k \in 1..Len(workflows) :
    Skippable(k) =>
      /\ \A n \in 1..Len(apiCalls) :
           apiCalls[n].at = k => apiCalls[n].method = "getContent"
      /\ (\A j \in 1..Len(workflows) : j /= k => workflows[j] /= workflows[k])
           => ~Includes(updatedWorkflows, workflows[k])
      /\ cursor > k
      /\ \A j \in (k + 1)..Len(workflows) :
           (j < cursor \/ settled = "fulfilled") => Fetched(j)

\* The first workflow was not found and the second was committed.
C18_Witness ==
  /\ Len(workflows) = 2
  /\ workflows[1] /= workflows[2]
  /\ Len(apiCalls) = 3
  /\ apiCalls[1].status = 404
  /\ updatedWorkflows = <<workflows[2]>>
  /\ settled = "fulfilled"

\* The last request logged failed with a status other than 404.
LastCallFailed ==
  /\ apiCalls /= <<>>
  /\ apiCalls[Len(apiCalls)].status \notin {200, 404}

\* C19: when a fetch or a commit for workflow k fails with a status other
\* than 404, updateWorkflowChoices rejects, no request is issued for a later
\* workflow, the commits made before k stay, and run records a failure
\* without setting the outputs.
C19_OtherErrorsAbort ==
  /\ [](\A n \in 1..Len(apiCalls) :
          apiCalls[n].status \notin {200, 404} =>
            /\ n = Len(apiCalls)
            /\ apiCalls[n].at = cursor
            /\ settled = "rejected"
            /\ failed
            /\ ~outputs.set
            /\ pc = "Exit")
  /\ [][settled' = "rejected" =>
          /\ updatedWorkflows' = updatedWorkflows
          /\ \A n \in 1..Len(apiCalls) : apiCalls'[n] = apiCalls[n]
          /\ settled = "rejected" => UNCHANGED vars]_vars

\* The commit of the second workflow failed with status 500 after the first
\* was committed.
C19_Witness ==
  /\ settled = "rejected"
  /\ cursor = 2
  /\ updatedWorkflows = <<workflows[1]>>
  /\ LastCallFailed
  /\ apiCalls[Len(apiCalls)].method = "createOrUpdateFileContents"
  /\ failed
  /\ ~outputs.set

\* C20: the dispatcher of modifyWorkflowContent: a call starts in
\* TryStructural; it moves to Fallback only when the parser reported errors;
\* from Fallback the result of modifyWithFallback is returned and nothing else
\* is tried; the serialized tree is returned only for a document without
\* parse errors.
C20_DispatcherMachine ==
  /\ [](entry = "modifyWorkflowContent" =>
          /\ pc \in {"TryStructural", "Fallback", "Done"}
          /\ pc = "Fallback" => DocErrors(content)
          /\ strategy = "fallback" => (pc = "Done" /\ DocErrors(content))
          /\ outcome = "serialized" =>
               (~DocErrors(content) /\ strategy = "structural"))
  /\ [][(entry' = "modifyWorkflowContent" /\ calls' /= calls) =>
          pc' = "TryStructural"]_vars
  /\ [][(entry = "modifyWorkflowContent" /\ pc = "TryStructural") =>
          /\ pc' \in {"Fallback", "Done"}
          /\ pc' = "Fallback" => UNCHANGED <<content, options, result>>]_vars
  /\ [][(entry = "modifyWorkflowContent" /\ pc = "Fallback") =>
          /\ pc' = "Done"
          /\ strategy' = "fallback"
          /\ result' = ModifyWithFallback(content, options).result
          /\ UNCHANGED <<content, options>>]_vars

\* A request on a document with a parse error went through Fallback and was
\* answered by the splice.
C20_Witness ==
  /\ entry = "modifyWorkflowContent"
  /\ pc = "Done"
  /\ DocErrors(content)
  /\ strategy = "fallback"
  /\ outcome = "fallback-spliced"
  /\ result /= content

\* The last request logged, a createOrUpdateFileContents, had this status.
CommitAnswered(status) ==
  /\ CommitLogged
  /\ apiCalls'[Len(apiCalls')].status = status

\* C21: no lost update: the workflows are processed one after another, the
\* commit of a workflow follows the fetch of that workflow and carries the sha
\* that fetch returned, so a commit sent after another writer changed the file
\* is rejected by the store and the other writer's revision stays.
C21_NoLostUpdate ==
  /\ [](\A n \in 1..Len(apiCalls) :
          /\ \A m \in 1..(n - 1) : apiCalls[m].at <= apiCalls[n].at
          /\ apiCalls[n].method = "createOrUpdateFileContents" =>
               /\ n > 1
               /\ apiCalls[n - 1].method = "getContent"
               /\ apiCalls[n - 1].at = apiCalls[n].at
               /\ apiCalls[n - 1].status = 200
               /\ apiCalls[n - 1].file)
  /\ [][fileData' /= fileData =>
          /\ pc = "GetContent"
          /\ pc' = FirstStep("modifyWorkflowContent")
          /\ fileData' = remote[workflows[cursor]]]_vars
  /\ [][CommitAnswered(200) =>
          /\ fileData = remote[workflows[cursor]]
          /\ remote' = [remote EXCEPT ![workflows[cursor]] = @ + 1]]_vars
  /\ [][(CommitLogged /\ fileData /= remote[workflows[cursor]]) =>
          /\ ~CommitAnswered(200)
          /\ remote' = remote
          /\ updatedWorkflows' = updatedWorkflows]_vars

\* Another writer changed the file after the fetch, and the commit was
\* answered with a conflict.
C21_Witness ==
  /\ settled = "rejected"
  /\ apiCalls /= <<>>
  /\ apiCalls[Len(apiCalls)].method = "createOrUpdateFileContents"
  /\ apiCalls[Len(apiCalls)].status = 409
  /\ remote[workflows[cursor]] > fileData
  /\ result /= content

\* The commit of entry k failed with status 404.
CommitNotFound(k) ==
  \E n \in 1..Len(apiCalls) :
    /\ apiCalls[n].method = "createOrUpdateFileContents"
    /\ apiCalls[n].at = k
    /\ apiCalls[n].status = 404

\* C22: a 404 from createOrUpdateFileContents, after a successful fetch and a
\* real change, is handled like a 404 from the fetch: the workflow is skipped
\* with a warning, is not pushed to updatedWorkflows, nothing propagates and
\* the remaining workflows are processed.
C22_CommitNotFoundIsSkipped ==
  \A k \in 1..Len(workflows) :
    CommitNotFound(k) =>
      /\ \E n \in 1..Len(warnings) :
           warnings[n] = [at |-> k, about |-> "not found"]
      /\ \A n \in 1..Len(SuccessfulCommits) : SuccessfulCommits[n].at /= k
      /\ (\A j \in 1..Len(workflows) : j /= k => workflows[j] /= workflows[k])
           => ~Includes(updatedWorkflows, workflows[k])
      /\ cursor > k
      /\ \A j \in (k + 1)..Len(workflows) :
           (j < cursor \/ settled = "fulfilled") => Fetched(j)

\* The commit of the first workflow was answered 404 and the second workflow
\* was committed.
C22_Witness ==
  /\ Len(workflows) = 2
  /\ workflows[1] /= workflows[2]
  /\ CommitNotFound(1)
  /\ updatedWorkflows = <<workflows[2]>>
  /\ settled = "fulfilled"
  /\ outputs.changesMade

\* The requests of one kind logged for entry k.
RequestsFor(method, k) ==
  {n \in 1..Len(apiCalls) : apiCalls[n].method = method /\ apiCalls[n].at = k}

\* C23: bounded work per run: updateWorkflowChoices issues at most one fetch
\* and at most one commit per entry of workflows, never retries, and, when
\* every remote call returns or fails, ends after at most Len(workflows)
\* iterations; every modifyWorkflowContent call ends, without a retry or a
\* loop between its two strategies.
C23_BoundedWork ==
  /\ [](\A n \in 1..Len(apiCalls) : apiCalls[n].at \in 1..Len(workflows))
  /\ [](\A k \in 1..Len(workflows) :
          /\ Cardinality(RequestsFor("getContent", k)) <= 1
          /\ Cardinality(RequestsFor("createOrUpdateFileContents", k)) <= 1)
  /\ [](cursor \in 1..(Len(workflows) + 1))
  /\ [][cursor' /= cursor => cursor' = cursor + 1]_vars
  /\ [][pc = "TryStructural" => pc' \in {"TryStructural", "Fallback", "Done"}]_vars
  /\ [][pc = "Fallback" => pc' \in {"Fallback", "Done"}]_vars
  /\ (pc \in {"TryStructural", "Fallback"}) ~> (pc = "Done")
  /\ <>(pc = "Exit" /\ settled \in {"fulfilled", "rejected"})

\* A run over two workflows ended after two fetches and two commits.
C23_Witness ==
  /\ pc = "Exit"
  /\ settled = "fulfilled"
  /\ Len(workflows) = 2
  /\ cursor = 3
  /\ Cardinality(RequestsFor("getContent", 1)) = 1
  /\ Cardinality(RequestsFor("createOrUpdateFileContents", 1)) = 1
  /\ Cardinality(RequestsFor("getContent", 2)) = 1
  /\ Cardinality(RequestsFor("createOrUpdateFileContents", 2)) = 1

====
